---------------------------- MODULE Spec2Model ----------------------------
(***************************************************************************)
(* A model of cacao-pandas-ui: the preview_dataframe entry point and its   *)
(* process-wide guard flag (viewer.py), the PandasTablePage constructor    *)
(* and its table-to-display-record conversion (viewer.py), and the file    *)
(* loader and command-line entry point (cli.py).                           *)
(***************************************************************************)
EXTENDS Integers, Sequences, FiniteSets, TLC

(***************************************************************************)
(* Bounds of the model.                                                    *)
(***************************************************************************)
\* number of preview_dataframe calls (threads or nested re-invocations)
MaxCalls == 2

Calls == 1..MaxCalls

\* largest number of rows and of columns of a source table
MaxRows == 2

MaxCols == 2

(***************************************************************************)
(* Python objects.  Every object is a record whose field cls is the name   *)
(* of its class; payloads are the text Python prints for the value.        *)
(***************************************************************************)
None == [cls |-> "NoneType"]

\* a pandas Series: a table-like object that is not a DataFrame
ASeries == [cls |-> "Series"]

\* pd.DataFrame(): no columns, no rows
EmptyFrame == [cls |-> "DataFrame", columns |-> <<>>, index |-> <<>>, data |-> <<>>]

\* pd.DataFrame({"Name": ["Alice"]})
OneRowFrame ==
    [cls |-> "DataFrame",
     columns |-> << [name |-> "Name", dtype |-> "object"] >>,
     index |-> << "0" >>,
     data |-> << << [cls |-> "str", v |-> "Alice"] >> >>]

\* the objects a caller hands to preview_dataframe and to the constructors
PreviewInputs == {OneRowFrame, EmptyFrame, ASeries}

\* isinstance(dataframe, pd.DataFrame), viewer.py line 30
IsDataFrame(x) == x.cls = "DataFrame"

\* df.empty: an axis of length 0 (no columns, or no rows)
IsEmpty(df) == Len(df.columns) = 0 \/ Len(df.index) = 0

Modes == {"simple", "advanced"}

(***************************************************************************)
(* PandasTablePage.__init__ (viewer.py 21-43).  The result is the          *)
(* exception raised, or the attributes set on self.                        *)
(***************************************************************************)
\* a constructor that stores its argument without the isinstance test
InitNoCheck(dataframe, title, mode) ==
    [exc |-> "none",
     self |-> [dataframe |-> dataframe, title |-> title, mode |-> mode]]

PandasTablePage_init(dataframe, title, mode) ==
    IF ~IsDataFrame(dataframe)
    THEN [exc |-> "ValueError: Input must be a pandas DataFrame", self |-> None]
    ELSE [exc |-> "none",
          self |-> [dataframe |-> dataframe, title |-> title, mode |-> mode]]

\* create_simple_table (viewer.py 417-428)
create_simple_table(dataframe) == PandasTablePage_init(dataframe, None, "simple")

\* create_advanced_table (viewer.py 431-442)
create_advanced_table(dataframe) == PandasTablePage_init(dataframe, None, "advanced")

(***************************************************************************)
(* Source tables.  A DataFrame has an ordered list of columns (name and    *)
(* dtype; pandas allows a name to occur twice), an index (one label per    *)
(* row) and its rows of cells.  A cell is a Python scalar: its class and   *)
(* the text Python prints for it.                                          *)
(***************************************************************************)
Names == {"a", "b", "_index"}

\* the kinds of column of the sample tables: cli.py 63-72, sample.py 18-35, 95-103
\* ("str" and "pybool" are object columns of text and of Python bools)
ColumnKinds == {"int64", "float64", "bool", "str", "pybool", "datetime64[ns]", "category"}

DType(kind) == IF kind \in {"str", "pybool"} THEN "object" ELSE kind

\* a value of each kind of column
Canonical(kind) ==
    CASE kind = "int64" -> [cls |-> "int", v |-> "1"]
      [] kind = "float64" -> [cls |-> "float", v |-> "1.5"]
      [] kind \in {"bool", "pybool"} -> [cls |-> "bool", v |-> "True"]
      [] kind = "datetime64[ns]" -> [cls |-> "Timestamp", v |-> "2023-01-01 00:00:00"]
      [] kind = "category" -> [cls |-> "str", v |-> "A"]
      [] OTHER -> [cls |-> "str", v |-> "x"]

\* columns that can hold a missing value (int64 and bool columns cannot)
CanHoldNull(kind) == kind \in {"float64", "str", "pybool", "datetime64[ns]", "category"}

\* the missing value of each kind of column: np.nan, None, pd.NaT
NullOf(kind) ==
    CASE kind = "datetime64[ns]" -> [cls |-> "NaTType", v |-> "NaT"]
      [] kind \in {"str", "pybool"} -> [cls |-> "NoneType", v |-> "None"]
      [] OTHER -> [cls |-> "float", v |-> "nan"]

\* pd.isna(value), viewer.py line 69
IsNull(x) == x.v \in {"nan", "None", "NaT"}

Digits == <<"0", "1", "2", "3", "4", "5", "6", "7", "8", "9">>

\* the labels of a custom index
CustomLabels == <<"w", "x", "y", "z">>

\* the label of row i: a RangeIndex position or a custom text label
IndexLabel(custom, i) ==
    IF custom THEN [cls |-> "str", v |-> CustomLabels[i]]
    ELSE [cls |-> "int", v |-> Digits[i]]

\* the table with the given column names and kinds and n rows; column j holds a
\* missing value in its last row when nulls[j]
MakeFrame(names, kinds, nulls, n, custom) ==
    [cls |-> "DataFrame",
     columns |-> [j \in DOMAIN names |-> [name |-> names[j], dtype |-> DType(kinds[j])]],
     index |-> [i \in 1..n |-> IndexLabel(custom, i)],
     data |-> [i \in 1..n |->
                 [j \in DOMAIN names |->
                     IF nulls[j] /\ i = n /\ CanHoldNull(kinds[j])
                     THEN NullOf(kinds[j])
                     ELSE Canonical(kinds[j])]]]

NRows(df) == Len(df.index)

NCols(df) == Len(df.columns)

(***************************************************************************)
(* pandas and Python operations used by _prepare_table_data.               *)
(***************************************************************************)
HasNull(df, j) == \E i \in 1..NRows(df) : IsNull(df.data[i][j])

NA == [cls |-> "str", v |-> "N/A"]

\* df.fillna("N/A"), viewer.py line 56: every missing value is replaced by the
\* text and its column becomes an object column; a categorical column refuses a
\* fill value that is not one of its categories (TypeError: Cannot setitem on a
\* Categorical with a new category)
fillna(df) ==
    IF \E j \in 1..NCols(df) : df.columns[j].dtype = "category" /\ HasNull(df, j)
    THEN [exc |-> "TypeError: Cannot setitem on a Categorical with a new category (N/A)",
          df |-> None]
    ELSE [exc |-> "none",
          df |-> [df EXCEPT
                    !.columns = [j \in 1..NCols(df) |->
                                    [df.columns[j] EXCEPT
                                        !.dtype = IF HasNull(df, j) THEN "object" ELSE @]],
                    !.data = [i \in 1..NRows(df) |->
                                [j \in 1..NCols(df) |->
                                    IF IsNull(df.data[i][j]) THEN NA ELSE df.data[i][j]]]]]

\* the number of columns called col
Occurrences(df, col) == Cardinality({j \in 1..NCols(df) : df.columns[j].name = col})

\* the dtype of the first column called col
DTypeOf(df, col) ==
    df.columns[CHOOSE j \in 1..NCols(df) :
                  /\ df.columns[j].name = col
                  /\ \A k \in 1..(j - 1) : df.columns[k].name # col].dtype

\* the dtype of the rows iterrows yields (df.values): the common dtype of the
\* columns, object when they do not share a numeric one
RowDType(df) ==
    LET ds == {df.columns[j].dtype : j \in 1..NCols(df)}
    IN  CASE ds = {"int64"} -> "int64"
          [] ds = {"bool"} -> "bool"
          [] ds = {"datetime64[ns]"} -> "datetime64[ns]"
          [] ds # {} /\ ds \subseteq {"int64", "float64"} -> "float64"
          [] OTHER -> "object"

\* int to float: 1 becomes 1.0
AsFloatText(v) == IF v = "1" THEN "1.0" ELSE v

\* row[col], viewer.py line 67: the cell as the row Series holds it.  A row of
\* dtype int64, bool or float64 holds numpy scalars (an int64 cell of a float64
\* row is upcast); a row of dtype object holds the Python objects.
RowValue(df, x) ==
    LET rd == RowDType(df)
    IN  CASE rd = "int64" -> [cls |-> "numpy.int64", v |-> x.v]
          [] rd = "bool" -> [cls |-> "numpy.bool_", v |-> x.v]
          [] rd = "float64" -> [cls |-> "numpy.float64", v |-> AsFloatText(x.v)]
          [] OTHER -> x

\* isinstance(value, (int, float)), viewer.py line 71: bool is a subclass of int
\* and numpy.float64 one of float; numpy.int64 and numpy.bool_ are neither
IsIntOrFloat(x) == x.cls \in {"int", "float", "bool", "numpy.float64"}

\* isinstance(value, (datetime, pd.Timestamp)), viewer.py line 73
IsDatetime(x) == x.cls \in {"datetime", "Timestamp"}

\* str(value)
Str(x) == [cls |-> "str", v |-> x.v]

\* value.strftime("%Y-%m-%d %H:%M:%S")
Strftime(x) == [cls |-> "str", v |-> x.v]

\* viewer.py lines 69-76
Coerce(value) ==
    IF IsNull(value) THEN NA
    ELSE IF IsIntOrFloat(value) THEN value
    ELSE IF IsDatetime(value) THEN Strftime(value)
    ELSE Str(value)

\* a dict as the list of its items in insertion order
HasKey(d, k) == \E p \in 1..Len(d) : d[p].k = k

\* d[k] = v: a new key is appended, an existing key keeps its place
DictSet(d, k, v) ==
    IF HasKey(d, k)
    THEN [p \in 1..Len(d) |-> IF d[p].k = k THEN [k |-> k, v |-> v] ELSE d[p]]
    ELSE Append(d, [k |-> k, v |-> v])

DictGet(d, k) == d[CHOOSE p \in 1..Len(d) : d[p].k = k].v

Keys(d) == [p \in 1..Len(d) |-> d[p].k]

(***************************************************************************)
(* PandasTablePage._prepare_table_data (viewer.py 45-84).                  *)
(***************************************************************************)
\* lines 65-76: the display record of row i of the filled table
RECURSIVE FillRecord(_, _, _, _)
FillRecord(df, i, j, row_data) ==
    IF j > NCols(df) THEN row_data
    ELSE FillRecord(df, i, j + 1,
                    DictSet(row_data, df.columns[j].name,
                            Coerce(RowValue(df, df.data[i][j]))))

RowRecord(df, i) ==
    FillRecord(df, i, 1, << [k |-> "_index", v |-> Str(df.index[i])] >>)

_prepare_table_data(self) ==
    LET filled == fillna(self.dataframe)
        df == filled.df
    IN  IF filled.exc # "none"
        THEN [exc |-> filled.exc]
        \* line 59: df[col] is a DataFrame, which has no dtype, when two columns
        \* are called col
        ELSE IF \E j \in 1..NCols(df) : Occurrences(df, df.columns[j].name) > 1
        THEN [exc |-> "AttributeError: 'DataFrame' object has no attribute 'dtype'"]
        ELSE [exc |-> "none",
              columns |-> [j \in 1..NCols(df) |->
                              [key |-> df.columns[j].name,
                               title |-> df.columns[j].name,
                               dataType |-> DTypeOf(df, df.columns[j].name)]],
              data |-> [i \in 1..NRows(df) |-> RowRecord(df, i)],
              totalRows |-> NRows(df),
              shape |-> <<NRows(df), NCols(df)>>]

(***************************************************************************)
(* PandasTablePage.render and the table templates (viewer.py 86-351).      *)
(* components is CACAO_COMPONENTS_AVAILABLE (viewer.py 8-13).              *)
(***************************************************************************)
\* _create_toolbar (viewer.py 86-152): the two buttons and the shape text
_create_toolbar(self) ==
    [type |-> "div",
     buttons |-> <<"Download CSV", "Download Excel">>,
     content |-> <<NRows(self.dataframe), NCols(self.dataframe)>>]

\* _create_simple_table (viewer.py 239-283)
_create_simple_table(td) ==
    [type |-> "table", id |-> "pandasTable",
     columns |-> td.columns, data |-> td.data,
     sticky |-> FALSE, alternating |-> FALSE]

\* row_data.get(col["key"], ""), viewer.py line 303
DictGetOr(d, k, default) == IF HasKey(d, k) THEN DictGet(d, k) ELSE default

\* _create_advanced_table (viewer.py 285-351): the cacao Table component when
\* the components are available, the hand-built table otherwise
_create_advanced_table(td, components) ==
    IF components
    THEN [type |-> "cacao.Table", advanced |-> TRUE,
          headers |-> [j \in 1..Len(td.columns) |-> td.columns[j].title],
          rows |-> [i \in 1..Len(td.data) |->
                      [j \in 1..Len(td.columns) |->
                          DictGetOr(td.data[i], td.columns[j].key,
                                    [cls |-> "str", v |-> ""])]]]
    ELSE [type |-> "table", id |-> "pandasAdvancedTable",
          columns |-> td.columns, data |-> td.data,
          sticky |-> TRUE, alternating |-> TRUE]

\* a mode switch that takes the advanced branch for every mode
CreateAlwaysAdvanced(self, td, components) == _create_advanced_table(td, components)

\* _create_table_component (viewer.py 224-237)
_create_table_component(self, td, components) ==
    IF self.mode = "simple"
    THEN _create_simple_table(td)
    ELSE _create_advanced_table(td, components)

\* self.plugin.process(self.dataframe).render(): the table of the external
\* plugin, which __init__ (viewer.py 38-43) built with enhanced_mode=(mode == "advanced")
PluginTable(self) ==
    [type |-> "PandasTablePlugin", enhanced_mode |-> (self.mode = "advanced")]

\* render (viewer.py 154-222): the toolbar and the table, or the exception of
\* _prepare_table_data
render(self, components) ==
    IF components
    THEN [exc |-> "none", by |-> "render", type |-> "div",
          toolbar |-> _create_toolbar(self), table |-> PluginTable(self)]
    ELSE LET td == _prepare_table_data(self)
         IN  IF td.exc # "none"
             THEN [exc |-> td.exc, by |-> "render"]
             ELSE [exc |-> "none", by |-> "render", type |-> "div",
                   toolbar |-> _create_toolbar(self),
                   table |-> _create_table_component(self, td, components)]

(***************************************************************************)
(* Files and the pandas readers (cli.py 12-46).  A file is the suffix of   *)
(* its name as written, what its content is, and whether it holds rows.    *)
(***************************************************************************)
Suffixes == {".csv", ".CSV", ".tsv", ".TSV", ".tab", ".xlsx", ".XLSX", ".xls", ".json",
             ".parquet", ".pkl", ".pickle", ".xyz", ".txt", ""}

\* "text": delimited text; "missing": there is no such file; "corrupt": bytes no
\* reader can parse
Contents == {"text", "workbook", "json", "parquet", "pickle", "missing", "corrupt"}

Files == [stem : {"data"}, suffix : Suffixes, content : Contents, rows : {0, 1}]

\* str(filepath)
PathText(f) == <<f.stem, f.suffix>>

\* a suffix taken as it is written
AsWritten(suffix) == suffix

\* filepath.suffix.lower(), cli.py line 28
Lower(suffix) ==
    CASE suffix = ".CSV" -> ".csv"
      [] suffix = ".TSV" -> ".tsv"
      [] suffix = ".XLSX" -> ".xlsx"
      [] OTHER -> suffix

\* the keyword arguments a caller can pass on to the reader
KwargSets == {{}, {"encoding"}, {"encoding", "delimiter", "header"},
              {"encoding", "sheet_name"}, {"sheet_name"}}

\* the table a header line without data rows gives
HeaderOnlyFrame ==
    [cls |-> "DataFrame",
     columns |-> << [name |-> "Name", dtype |-> "object"] >>,
     index |-> <<>>,
     data |-> <<>>]

\* the keyword arguments each pandas reader takes, among those of KwargSets
Accepts(reader) ==
    CASE reader = "read_csv" -> {"encoding", "delimiter", "header", "sep"}
      [] reader = "read_excel" -> {"header", "sheet_name"}
      [] reader = "read_json" -> {"encoding"}
      [] OTHER -> {}

\* the content each reader parses
Reads(reader) ==
    CASE reader = "read_csv" -> "text"
      [] reader = "read_excel" -> "workbook"
      [] reader = "read_json" -> "json"
      [] reader = "read_parquet" -> "parquet"
      [] OTHER -> "pickle"

\* pd.<reader>(filepath, **kwargs): the table, or the exception the reader raises
CallReader(reader, f, kwargs) ==
    IF ~(kwargs \subseteq Accepts(reader))
    THEN [exc |-> [type |-> "TypeError", msg |-> <<"unexpected keyword argument">>],
          df |-> None]
    ELSE IF {"sep", "delimiter"} \subseteq kwargs
    THEN [exc |-> [type |-> "ValueError",
                   msg |-> <<"Specified a sep and a delimiter; you can only specify one.">>],
          df |-> None]
    ELSE IF f.content = "missing"
    THEN [exc |-> [type |-> "FileNotFoundError", msg |-> <<"No such file or directory">>],
          df |-> None]
    ELSE IF f.content # Reads(reader)
    THEN [exc |-> [type |-> "ParserError", msg |-> <<"cannot parse the file">>],
          df |-> None]
    ELSE [exc |-> None, df |-> IF f.rows = 0 THEN HeaderOnlyFrame ELSE OneRowFrame]

\* the reader of each branch of cli.py lines 31-42, "" when none
ReaderFor(file_extension) ==
    CASE file_extension = ".csv" -> "read_csv"
      [] file_extension \in {".xlsx", ".xls"} -> "read_excel"
      [] file_extension = ".json" -> "read_json"
      [] file_extension = ".parquet" -> "read_parquet"
      [] file_extension \in {".tsv", ".tab"} -> "read_csv"
      [] file_extension \in {".pkl", ".pickle"} -> "read_pickle"
      [] OTHER -> ""

\* the outcome of the one reader call of a branch, with the call itself
Called(reader, f, kwargs) ==
    LET r == CallReader(reader, f, kwargs)
    IN  [exc |-> r.exc, df |-> r.df,
         calls |-> << [reader |-> reader, kwargs |-> kwargs] >>]

\* cli.py lines 30-44: the body of the try block
TryLoad(f, kwargs) ==
    LET file_extension == Lower(f.suffix)
    IN  IF ReaderFor(file_extension) = ""
        THEN [exc |-> [type |-> "ValueError",
                       msg |-> <<"Unsupported file format: ", file_extension>>],
              df |-> None, calls |-> <<>>]
        ELSE IF file_extension \in {".tsv", ".tab"}
        THEN Called("read_csv", f, kwargs \cup {"sep"})
        ELSE Called(ReaderFor(file_extension), f, kwargs)

\* a loader whose handler lets the exception of the try block through
LoadNoHandler(f, kwargs) == TryLoad(f, kwargs)

\* load_dataframe_from_file (cli.py 12-46): whatever the try block raises is
\* caught at line 45 and raised again as a plain Exception
load_dataframe_from_file(f, kwargs) ==
    LET r == TryLoad(f, kwargs)
    IN  IF r.exc = None THEN r
        ELSE [exc |-> [type |-> "Exception",
                       msg |-> <<"Error loading file '">> \o PathText(f)
                                   \o <<"': ">> \o r.exc.msg],
              df |-> None, calls |-> r.calls]

(***************************************************************************)
(* State.                                                                  *)
(***************************************************************************)
VARIABLES
    flag,       \* hasattr(sys, '_cacao_pandas_viewer_running')
    cacaoOk,    \* whether `from cacao import App` succeeds in this process
    pc,         \* where each preview_dataframe call stands
    arg,        \* the dataframe argument of each call
    argMode,    \* the mode argument of each call
    exc,        \* the exception each call is propagating ("none": none)
    printed,    \* what each call printed
    app,        \* whether the call created an App (line 394)
    page,       \* the PandasTablePage of the call (viewer), None before line 395
    window,     \* whether app.brew opened a window for the call
    entry,      \* the entry point each call went through
    viewer,     \* a PandasTablePage whose table data is prepared (None: none)
    table_data, \* what its _prepare_table_data returned or raised (None: not called)
    loaded,     \* the last call of load_dataframe_from_file and its outcome
    components, \* CACAO_COMPONENTS_AVAILABLE (viewer.py 8-13)
    madeBy,     \* the constructor the rendered page was made with
    tree,       \* what render or _create_table_component returned (None: not called)
    cli         \* the outcome of the command-line entry point (None: not run)

previewVars == <<flag, cacaoOk, pc, arg, argMode, exc, printed, app, page, window, entry>>

tableVars == <<viewer, table_data>>

cliVars == <<loaded>>

renderVars == <<components, madeBy, tree>>

mainVars == <<cli>>

vars == <<previewVars, tableVars, cliVars, renderVars, mainVars>>

DupWarning == "Warning: Cacao Pandas UI is already running. Ignoring duplicate call."

\* positions of a call that has passed the guard test of line 385
PastGuard == {"set", "try", "page", "brew", "running", "fin", "del"}

\* positions of a call between the flag being set (389) and the finally block
InTry == {"try", "page", "brew", "running"}

InitPreview ==
    /\ flag = FALSE
    /\ pc = [t \in Calls |-> "idle"]
    /\ arg = [t \in Calls |-> None]
    /\ argMode = [t \in Calls |-> "advanced"]
    /\ exc = [t \in Calls |-> "none"]
    /\ printed = [t \in Calls |-> {}]
    /\ app = [t \in Calls |-> FALSE]
    /\ page = [t \in Calls |-> None]
    /\ window = [t \in Calls |-> FALSE]
    /\ entry = [t \in Calls |-> "none"]

\* no page is looked at
NoTable ==
    /\ viewer = None
    /\ table_data = None

\* no file is loaded
NoLoad == loaded = None

\* nothing is rendered
NoRender ==
    /\ components = FALSE
    /\ madeBy = "none"
    /\ tree = None

\* the command-line entry point is not run
NoMain == cli = None

Init == cacaoOk \in BOOLEAN /\ InitPreview /\ NoTable /\ NoLoad /\ NoRender /\ NoMain

(***************************************************************************)
(* preview_dataframe (viewer.py 354-414), one action per step at which     *)
(* another thread, or a re-entrant call from the running window, can run.  *)
(***************************************************************************)
\* a guard that lets every call through
GuardOpen(t, df, mode) ==
    /\ pc[t] = "idle"
    /\ arg' = [arg EXCEPT ![t] = df]
    /\ argMode' = [argMode EXCEPT ![t] = mode]
    /\ pc' = [pc EXCEPT ![t] = "set"]
    /\ entry' = [entry EXCEPT ![t] = "preview_dataframe"]
    /\ UNCHANGED <<flag, cacaoOk, exc, printed, app, page, window, tableVars, cliVars, renderVars, mainVars>>

\* lines 385-387: the call is made and tests the flag
Guard(t, df, mode) ==
    /\ pc[t] = "idle"
    /\ arg' = [arg EXCEPT ![t] = df]
    /\ argMode' = [argMode EXCEPT ![t] = mode]
    /\ IF flag
       THEN /\ printed' = [printed EXCEPT ![t] = @ \cup {DupWarning}]
            /\ pc' = [pc EXCEPT ![t] = "done"]
       ELSE /\ pc' = [pc EXCEPT ![t] = "set"]
            /\ UNCHANGED printed
    /\ entry' = [entry EXCEPT ![t] = "preview_dataframe"]
    /\ UNCHANGED <<flag, cacaoOk, exc, app, page, window, tableVars, cliVars, renderVars, mainVars>>

\* line 389: sys._cacao_pandas_viewer_running = True
SetFlag(t) ==
    /\ pc[t] = "set"
    /\ flag' = TRUE
    /\ pc' = [pc EXCEPT ![t] = "try"]
    /\ UNCHANGED <<cacaoOk, arg, argMode, exc, printed, app, page, window, entry, tableVars, cliVars, renderVars, mainVars>>

\* lines 392-394: from cacao import App; app = App()
ImportApp(t) ==
    /\ pc[t] = "try"
    /\ IF cacaoOk
       THEN /\ app' = [app EXCEPT ![t] = TRUE]
            /\ pc' = [pc EXCEPT ![t] = "page"]
            /\ UNCHANGED exc
       ELSE /\ exc' = [exc EXCEPT ![t] = "ImportError"]
            /\ pc' = [pc EXCEPT ![t] = "fin"]
            /\ UNCHANGED app
    /\ UNCHANGED <<flag, cacaoOk, arg, argMode, printed, page, window, entry, tableVars, cliVars, renderVars, mainVars>>

\* lines 395-402: viewer = PandasTablePage(...); the route "/" is registered
Construct(t) ==
    /\ pc[t] = "page"
    /\ LET r == PandasTablePage_init(arg[t], None, argMode[t])
       IN  IF r.exc = "none"
           THEN /\ page' = [page EXCEPT ![t] = r.self]
                /\ pc' = [pc EXCEPT ![t] = "brew"]
                /\ UNCHANGED exc
           ELSE /\ exc' = [exc EXCEPT ![t] = r.exc]
                /\ pc' = [pc EXCEPT ![t] = "fin"]
                /\ UNCHANGED page
    /\ UNCHANGED <<flag, cacaoOk, arg, argMode, printed, app, window, entry, tableVars, cliVars, renderVars, mainVars>>

\* lines 404-411: app.brew(...) opens the window and blocks, or raises
Brew(t) ==
    /\ pc[t] = "brew"
    /\ \/ /\ window' = [window EXCEPT ![t] = TRUE]
          /\ pc' = [pc EXCEPT ![t] = "running"]
          /\ UNCHANGED exc
       \/ /\ exc' = [exc EXCEPT ![t] = "BrewError"]
          /\ pc' = [pc EXCEPT ![t] = "fin"]
          /\ UNCHANGED window
    /\ UNCHANGED <<flag, cacaoOk, arg, argMode, printed, app, page, entry, tableVars, cliVars, renderVars, mainVars>>

\* the window is closed and app.brew returns
CloseWindow(t) ==
    /\ pc[t] = "running"
    /\ pc' = [pc EXCEPT ![t] = "fin"]
    /\ UNCHANGED <<flag, cacaoOk, arg, argMode, exc, printed, app, page, window, entry, tableVars, cliVars, renderVars, mainVars>>

\* a clean-up that runs only when the body raised nothing (no finally)
FinallyTestOnSuccess(t) ==
    /\ pc[t] = "fin"
    /\ pc' = [pc EXCEPT ![t] = IF flag /\ exc[t] = "none" THEN "del" ELSE "done"]
    /\ UNCHANGED <<flag, cacaoOk, arg, argMode, exc, printed, app, page, window, entry, tableVars, cliVars, renderVars, mainVars>>

\* line 413: finally: if hasattr(sys, '_cacao_pandas_viewer_running')
FinallyTest(t) ==
    /\ pc[t] = "fin"
    /\ pc' = [pc EXCEPT ![t] = IF flag THEN "del" ELSE "done"]
    /\ UNCHANGED <<flag, cacaoOk, arg, argMode, exc, printed, app, page, window, entry, tableVars, cliVars, renderVars, mainVars>>

\* line 414: delattr(sys, '_cacao_pandas_viewer_running'); the call returns or
\* propagates its exception (delattr of a missing attribute raises AttributeError)
FinallyDel(t) ==
    /\ pc[t] = "del"
    /\ IF flag
       THEN /\ flag' = FALSE
            /\ UNCHANGED exc
       ELSE /\ exc' = [exc EXCEPT ![t] = "AttributeError"]
            /\ UNCHANGED flag
    /\ pc' = [pc EXCEPT ![t] = "done"]
    /\ UNCHANGED <<cacaoOk, arg, argMode, printed, app, page, window, entry, tableVars, cliVars, renderVars, mainVars>>

(***************************************************************************)
(* The constructors called directly by library users: the call returns the *)
(* page, or raises.                                                        *)
(***************************************************************************)
Returned(t, via, x, mode, r) ==
    /\ pc[t] = "idle"
    /\ entry' = [entry EXCEPT ![t] = via]
    /\ arg' = [arg EXCEPT ![t] = x]
    /\ argMode' = [argMode EXCEPT ![t] = mode]
    /\ exc' = [exc EXCEPT ![t] = r.exc]
    /\ page' = [page EXCEPT ![t] = r.self]
    /\ pc' = [pc EXCEPT ![t] = "done"]
    /\ UNCHANGED <<flag, cacaoOk, printed, app, window, tableVars, cliVars, renderVars, mainVars>>

\* PandasTablePage(x, mode=mode)
Direct(t, x, mode) ==
    Returned(t, "PandasTablePage", x, mode, PandasTablePage_init(x, None, mode))

\* create_simple_table(x)
CreateSimple(t, x) ==
    Returned(t, "create_simple_table", x, "simple", create_simple_table(x))

\* create_advanced_table(x)
CreateAdvanced(t, x) ==
    Returned(t, "create_advanced_table", x, "advanced", create_advanced_table(x))

Next ==
    \/ \E t \in Calls, df \in PreviewInputs, mode \in Modes : Guard(t, df, mode)
    \/ \E t \in Calls : SetFlag(t)
    \/ \E t \in Calls : ImportApp(t)
    \/ \E t \in Calls : Construct(t)
    \/ \E t \in Calls : Brew(t)
    \/ \E t \in Calls : CloseWindow(t)
    \/ \E t \in Calls : FinallyTest(t)
    \/ \E t \in Calls : FinallyDel(t)
    \/ \E t \in Calls, x \in PreviewInputs, mode \in Modes : Direct(t, x, mode)
    \/ \E t \in Calls, x \in PreviewInputs : CreateSimple(t, x)
    \/ \E t \in Calls, x \in PreviewInputs : CreateAdvanced(t, x)

Spec == Init /\ [][Next]_vars


(***************************************************************************)
(* The table conversion on its own: a page is constructed from a source    *)
(* table and its _prepare_table_data is called (render, viewer.py 194).    *)
(***************************************************************************)
InitTable ==
    /\ cacaoOk = TRUE
    /\ InitPreview
    /\ \E m \in 0..MaxCols, n \in 0..MaxRows :
          \E names \in [1..m -> Names], kinds \in [1..m -> ColumnKinds],
             nulls \in [1..m -> BOOLEAN], custom \in BOOLEAN, mode \in Modes :
              viewer = PandasTablePage_init(
                           MakeFrame(names, kinds, nulls, n, custom), None, mode).self
    /\ table_data = None
    /\ NoLoad
    /\ NoRender
    /\ NoMain

PrepareTableData ==
    /\ table_data = None
    /\ table_data' = _prepare_table_data(viewer)
    /\ UNCHANGED <<previewVars, viewer, cliVars, renderVars, mainVars>>

NextTable == PrepareTableData

SpecTable == InitTable /\ [][NextTable]_vars

(***************************************************************************)
(* The file loader on its own: load_dataframe_from_file is called with a   *)
(* file and keyword arguments.                                             *)
(***************************************************************************)
InitCli ==
    /\ cacaoOk = TRUE
    /\ InitPreview
    /\ NoTable
    /\ NoLoad
    /\ NoRender
    /\ NoMain

LoadFile(f, kwargs) ==
    /\ loaded' = [filepath |-> f, kwargs |-> kwargs,
                  result |-> load_dataframe_from_file(f, kwargs)]
    /\ UNCHANGED <<previewVars, tableVars, renderVars, mainVars>>

NextCli == \E f \in Files, kwargs \in KwargSets : LoadFile(f, kwargs)

SpecCli == InitCli /\ [][NextCli]_vars

(***************************************************************************)
(* Rendering on its own: a page is constructed through one of the three    *)
(* constructors and rendered, or its table component is built directly.    *)
(***************************************************************************)
\* the kinds of column of the rendered tables
RenderKinds == {"str", "int64"}

InitRender ==
    /\ cacaoOk = TRUE
    /\ InitPreview
    /\ NoTable
    /\ NoLoad
    /\ components \in BOOLEAN
    /\ madeBy = "none"
    /\ tree = None
    /\ NoMain

\* the page of a successful construction becomes the viewer
Made(how, r) ==
    /\ viewer = None
    /\ r.exc = "none"
    /\ viewer' = r.self
    /\ madeBy' = how
    /\ UNCHANGED <<previewVars, table_data, cliVars, components, tree, mainVars>>

NewPage(df, mode) == Made("PandasTablePage", PandasTablePage_init(df, None, mode))

NewSimple(df) == Made("create_simple_table", create_simple_table(df))

NewAdvanced(df) == Made("create_advanced_table", create_advanced_table(df))

\* home() of the route "/" (viewer.py 397-399, cli.py 186-188): viewer.render()
Render ==
    /\ viewer # None /\ tree = None
    /\ tree' = render(viewer, components)
    /\ UNCHANGED <<previewVars, tableVars, cliVars, components, madeBy, mainVars>>

\* viewer._create_table_component(viewer._prepare_table_data()) called directly
CreateTableComponent ==
    /\ viewer # None /\ tree = None
    /\ LET td == _prepare_table_data(viewer)
       IN  tree' = IF td.exc # "none"
                   THEN [exc |-> td.exc, by |-> "_create_table_component"]
                   ELSE [exc |-> "none", by |-> "_create_table_component",
                         table |-> _create_table_component(viewer, td, components)]
    /\ UNCHANGED <<previewVars, tableVars, cliVars, components, madeBy, mainVars>>

RenderFrames ==
    UNION { { MakeFrame(names, kinds, [j \in 1..m |-> FALSE], n, FALSE) :
                 names \in [1..m -> Names], kinds \in [1..m -> RenderKinds] }
            : m \in 0..MaxCols, n \in 0..MaxRows }

NextRender ==
    \/ \E df \in RenderFrames, mode \in Modes : NewPage(df, mode)
    \/ \E df \in RenderFrames : NewSimple(df)
    \/ \E df \in RenderFrames : NewAdvanced(df)
    \/ Render
    \/ CreateTableComponent

SpecRender == InitRender /\ [][NextRender]_vars

(***************************************************************************)
(* The command-line entry point main() (cli.py 75-198).  The parsed        *)
(* arguments are the data file (None: not given), the --sample flag, the   *)
(* --mode and the --sheet (None: not given); the other options keep their  *)
(* defaults.                                                               *)
(***************************************************************************)
\* n_rows of create_sample_dataframe, cli.py line 61
n_rows == 100

\* create_sample_dataframe() (cli.py 49-72); the cells are random and left out
SampleFrame ==
    [cls |-> "DataFrame",
     columns |-> << [name |-> "ID", dtype |-> "int64"],
                    [name |-> "Name", dtype |-> "object"],
                    [name |-> "Age", dtype |-> "int64"],
                    [name |-> "Salary", dtype |-> "float64"],
                    [name |-> "Department", dtype |-> "object"],
                    [name |-> "Join_Date", dtype |-> "datetime64[ns]"],
                    [name |-> "Performance_Score", dtype |-> "float64"],
                    [name |-> "Is_Active", dtype |-> "bool"] >>,
     index |-> [i \in 1..n_rows |-> i - 1],
     data |-> [i \in 1..n_rows |-> <<>>]]

DefaultTitle == "Pandas DataFrame Viewer"

Sheets == {None, [cls |-> "str", v |-> "Sheet2"]}

Args == [data_file : Files \cup {None}, sample : BOOLEAN, mode : Modes,
         sheet : Sheets, title : {DefaultTitle}]

\* load_kwargs as built at cli.py 157-165; str.endswith compares the name as
\* it is written
load_kwargs(args) ==
    LET suffix == args.data_file.suffix
    IN  {"encoding"} \cup
        (IF suffix \in {".csv", ".tsv"} THEN {"delimiter", "header"}
         ELSE IF suffix \in {".xlsx", ".xls"} /\ args.sheet # None THEN {"sheet_name"}
         ELSE {})

\* the outcome of main before anything is done
Started ==
    [exit |-> 0, uncaught |-> "none", stdout |-> <<>>, stderr |-> <<>>, load |-> None,
     app |-> FALSE, viewer |-> None, brews |-> 0, window |-> None]

\* cli.py 178-198: the empty warning, the app, the page and the window.
\* brewOk tells whether app.brew opens the window or raises.
Show(out, df, args, brewOk) ==
    LET warned == IF IsEmpty(df)
                  THEN [out EXCEPT !.stderr = Append(@, "Warning: DataFrame is empty")]
                  ELSE out
        made == PandasTablePage_init(df, args.title, args.mode)
    IN  IF made.exc # "none"
        THEN [warned EXCEPT !.app = TRUE, !.exit = 1, !.uncaught = made.exc]
        ELSE IF ~brewOk
        THEN [warned EXCEPT !.app = TRUE, !.viewer = made.self, !.brews = 1,
                            !.exit = 1, !.uncaught = "BrewError"]
        ELSE [warned EXCEPT !.app = TRUE, !.viewer = made.self, !.brews = 1,
                            !.window = [type |-> "desktop", title |-> args.title]]

\* a main that opens the viewer on an empty table when loading fails
MainShowsAnyway(args, brewOk) == Show(Started, EmptyFrame, args, brewOk)

\* main() (cli.py 75-198) after parse_args
main(args, brewOk) ==
    IF args.sample
    THEN Show([Started EXCEPT !.stdout = <<"Using sample DataFrame with shape:">>],
              SampleFrame, args, brewOk)
    ELSE IF args.data_file # None
    THEN LET r == load_dataframe_from_file(args.data_file, load_kwargs(args))
             tried == [Started EXCEPT !.load = [kwargs |-> load_kwargs(args), result |-> r]]
         IN  IF r.exc # None
             THEN [tried EXCEPT !.stderr = << <<"Error loading data: ">> \o r.exc.msg >>,
                                !.exit = 1]
             ELSE Show([tried EXCEPT !.stdout = <<"Loaded DataFrame from">>],
                       r.df, args, brewOk)
    ELSE [Started EXCEPT
            !.stderr = <<"Error: No data file specified and --sample not used.",
                         "Use --help for usage information.">>,
            !.exit = 1]

InitMain ==
    /\ cacaoOk = TRUE
    /\ InitPreview
    /\ NoTable
    /\ NoLoad
    /\ NoRender
    /\ NoMain

\* the program is run once with the parsed arguments
RunMain(args, brewOk) ==
    /\ cli = None
    /\ cli' = [args |-> args, out |-> main(args, brewOk)]
    /\ UNCHANGED <<previewVars, tableVars, cliVars, renderVars>>

NextMain == \E args \in Args, brewOk \in BOOLEAN : RunMain(args, brewOk)

SpecMain == InitMain /\ [][NextMain]_vars

(***************************************************************************)
(* Claims about preview_dataframe and the constructors, stated for Spec.   *)
(***************************************************************************)
EmptyWarning == "Warning: DataFrame is empty"

ValueErrorNotFrame == "ValueError: Input must be a pandas DataFrame"

\* call t is made in this step, through preview_dataframe
Enters(t) == pc[t] = "idle" /\ pc'[t] # "idle" /\ entry'[t] = "preview_dataframe"

\* C1: a preview_dataframe call that finds the guard flag set prints the
\* warning and returns at once: it raises nothing, creates no App, no page and
\* no window, changes no other call, and leaves the flag set.
C1_DuplicateIsNoOp ==
    [][\A t \in Calls :
          (Enters(t) /\ flag) =>
              /\ pc'[t] = "done"
              /\ DupWarning \in printed'[t]
              /\ exc'[t] = "none"
              /\ ~app'[t] /\ page'[t] = None /\ ~window'[t]
              /\ flag'
              /\ \A u \in Calls \ {t} :
                    /\ pc'[u] = pc[u] /\ app'[u] = app[u]
                    /\ page'[u] = page[u] /\ window'[u] = window[u]]_vars

\* a duplicate call has returned with its warning while the first call's
\* window is still open
C1_Witness ==
    \E t, u \in Calls :
        /\ pc[t] = "running" /\ window[t] /\ flag
        /\ pc[u] = "done" /\ entry[u] = "preview_dataframe"
        /\ DupWarning \in printed[u] /\ ~app[u] /\ ~window[u]

\* C2: a call that passed the guard leaves the flag cleared when it completes,
\* whether it returns or raises (ImportError, the constructor's ValueError, an
\* error of app.brew); and a call made when no other call is in progress is
\* not treated as a duplicate.
C2_FlagClearedOnEveryExit ==
    [][\A t \in Calls :
          /\ (pc[t] \in {"fin", "del"} /\ pc'[t] = "done") => ~flag'
          /\ (Enters(t) /\ \A u \in Calls \ {t} : pc[u] \in {"idle", "done"})
                => (pc'[t] = "set" /\ DupWarning \notin printed'[t])]_vars

\* one call has completed by raising, the flag is clear, and a later call has
\* got as far as its window
C2_Witness ==
    \E t, u \in Calls :
        /\ pc[t] = "done" /\ entry[t] = "preview_dataframe"
        /\ exc[t] \in {ValueErrorNotFrame, "BrewError"}
        /\ pc[u] = "done" /\ entry[u] = "preview_dataframe"
        /\ window[u] /\ exc[u] = "none"
        /\ DupWarning \notin printed[u]
        /\ ~flag

\* C3: at most one call at a time is between the guard and the end of its
\* window, and the flag is set for as long as one is.
C3_MutualExclusion ==
    /\ Cardinality({t \in Calls : pc[t] \in InTry}) <= 1
    /\ (\E t \in Calls : pc[t] \in InTry) => flag

\* C9: a PandasTablePage constructed from an object that is not a DataFrame,
\* through any entry point, raises the ValueError, sets no page state and is
\* followed by no window.
C9_NonTableRejected ==
    \A t \in Calls :
        (entry[t] # "none" /\ ~IsDataFrame(arg[t])) =>
            /\ page[t] = None
            /\ ~window[t]
            /\ pc[t] \notin {"brew", "running"}
            /\ (entry[t] # "preview_dataframe" /\ pc[t] = "done")
                  => exc[t] = ValueErrorNotFrame
            /\ (entry[t] = "preview_dataframe" /\ pc[t] = "fin" /\ app[t])
                  => exc[t] = ValueErrorNotFrame

\* preview_dataframe and a convenience constructor have both rejected a Series
C9_Witness ==
    \E t, u \in Calls :
        /\ entry[t] = "preview_dataframe" /\ ~IsDataFrame(arg[t])
        /\ pc[t] = "fin" /\ app[t] /\ exc[t] = ValueErrorNotFrame
        /\ entry[u] \in {"create_simple_table", "create_advanced_table"}
        /\ ~IsDataFrame(arg[u]) /\ pc[u] = "done" /\ exc[u] = ValueErrorNotFrame

\* C10 (preview_dataframe): a call given an empty table that has reached
\* window creation has emitted the empty-table warning.
C10_EmptyWarnedOnPreview ==
    \A t \in Calls :
        (/\ entry[t] = "preview_dataframe"
         /\ IsDataFrame(arg[t]) /\ IsEmpty(arg[t])
         /\ pc[t] \in {"brew", "running"})
            => EmptyWarning \in printed[t]

(***************************************************************************)
(* Claims about _prepare_table_data, stated for SpecTable.                 *)
(***************************************************************************)
\* _prepare_table_data was called and returned its dict
Prepared == table_data # None /\ table_data.exc = "none"

Source == viewer.dataframe

UniqueNames(df) == \A j \in 1..NCols(df) : Occurrences(df, df.columns[j].name) = 1

\* C4: whenever _prepare_table_data returns, for a table of N rows and M
\* columns of any names, data has N records of M+1 keys each (the M column
\* names and "_index") and totalRows is N.
C4_RecordShape ==
    Prepared =>
        /\ Len(table_data.data) = NRows(Source)
        /\ table_data.totalRows = NRows(Source)
        /\ \A i \in 1..Len(table_data.data) :
              /\ Len(table_data.data[i]) = NCols(Source) + 1
              /\ HasKey(table_data.data[i], "_index")
              /\ \A j \in 1..NCols(Source) :
                    HasKey(table_data.data[i], Source.columns[j].name)

\* C5: whenever _prepare_table_data returns, the column descriptors follow the
\* source column order, the keys of the i-th record are "_index" followed by
\* the column names in source order, and its "_index" field is the text of the
\* i-th row's index label.
C5_OrderAndIndex ==
    Prepared =>
        /\ [j \in 1..Len(table_data.columns) |-> table_data.columns[j].key]
              = [j \in 1..NCols(Source) |-> Source.columns[j].name]
        /\ Len(table_data.data) = NRows(Source)
        /\ \A i \in 1..Len(table_data.data) :
              /\ Keys(table_data.data[i])
                    = <<"_index">> \o [j \in 1..NCols(Source) |-> Source.columns[j].name]
              /\ DictGet(table_data.data[i], "_index") = Str(Source.index[i])

\* C6: for a table whose column names are distinct, _prepare_table_data returns
\* records in which every missing source value reads "N/A" and no value is
\* missing.
C6_NullBecomesNA ==
    (table_data # None /\ UniqueNames(Source)) =>
        /\ table_data.exc = "none"
        /\ \A i \in 1..NRows(Source) :
              /\ \A j \in 1..NCols(Source) :
                    IsNull(Source.data[i][j]) =>
                        DictGet(table_data.data[i], Source.columns[j].name) = NA
              /\ \A p \in 1..Len(table_data.data[i]) : ~IsNull(table_data.data[i][p].v)

\* the same number, written as an int or as a float
SameNumber(a, b) == AsFloatText(a) = AsFloatText(b)

\* C7: in the records of a table whose column names are distinct and none
\* "_index", a number is still that number (not text), a timestamp is its
\* "%Y-%m-%d %H:%M:%S" text and any other value (text, boolean, categorical) is
\* its text.
C7_CoercedByKind ==
    (Prepared /\ UniqueNames(Source)
       /\ \A j \in 1..NCols(Source) : Source.columns[j].name # "_index") =>
        \A i \in 1..NRows(Source) : \A j \in 1..NCols(Source) :
            LET x == Source.data[i][j]
                y == DictGet(table_data.data[i], Source.columns[j].name)
            IN  \/ IsNull(x)
                \/ /\ x.cls \in {"int", "float"}
                   /\ y.cls \in {"int", "float", "numpy.int64", "numpy.float64"}
                   /\ SameNumber(y.v, x.v)
                \/ /\ x.cls = "Timestamp"
                   /\ y = [cls |-> "str", v |-> x.v]
                \/ /\ x.cls \in {"str", "bool"}
                   /\ y = [cls |-> "str", v |-> x.v]

(***************************************************************************)
(* Claims about load_dataframe_from_file, stated for SpecCli.              *)
(***************************************************************************)
Recognised == {".csv", ".xlsx", ".xls", ".json", ".parquet", ".tsv", ".tab",
               ".pkl", ".pickle"}

\* the path of the file is part of the message
PathInMessage(e, f) ==
    \E p \in 1..(Len(e.msg) - 1) : <<e.msg[p], e.msg[p + 1]>> = PathText(f)

\* C8: a file whose extension is not a recognised one makes the loader raise
\* ValueError, the unsupported-format error of its docstring; and every failure
\* of a reader is raised again with the path of the file in its message.
C8_UnsupportedIsValueError ==
    loaded # None =>
        /\ Lower(loaded.filepath.suffix) \notin Recognised
              => /\ loaded.result.exc # None
                 /\ loaded.result.exc.type = "ValueError"
        /\ (Lower(loaded.filepath.suffix) \in Recognised /\ loaded.result.exc # None)
              => PathInMessage(loaded.result.exc, loaded.filepath)

(***************************************************************************)
(* Claims about render and the table templates, stated for SpecRender.     *)
(***************************************************************************)
\* the static simple template: no sticky header, no alternating rows
IsSimpleTemplate(c) ==
    c.type = "table" /\ c.id = "pandasTable" /\ ~c.sticky /\ ~c.alternating

\* the hand-built advanced template: sticky header, alternating rows
IsAdvancedTemplate(c) ==
    c.type = "table" /\ c.id = "pandasAdvancedTable" /\ c.sticky /\ c.alternating

\* the table was handed to the external plugin or Table component
IsDelegated(c) == c.type \in {"PandasTablePlugin", "cacao.Table"}

Built == tree # None /\ tree.exc = "none"

\* the convenience constructors preset the mode
PresetMode ==
    /\ madeBy = "create_simple_table" => viewer.mode = "simple"
    /\ madeBy = "create_advanced_table" => viewer.mode = "advanced"

\* C11 as stated: the emitted table of a page in mode "simple" is always the
\* static simple template; that of a page in mode "advanced" is delegated to
\* the external plugin/component when available and is otherwise the hand-built
\* advanced template; the convenience constructors preset the mode.
C11_ModeAloneSelectsTemplate ==
    /\ PresetMode
    /\ Built =>
          /\ viewer.mode = "simple" => IsSimpleTemplate(tree.table)
          /\ viewer.mode = "advanced" =>
                IF components THEN IsDelegated(tree.table)
                ELSE IsAdvancedTemplate(tree.table)

\* C11 as amended: _create_table_component selects the template by mode as
\* stated, and render uses it when the external components are not available;
\* when they are available render hands the table to the external plugin in
\* both modes, with enhanced_mode set only in mode "advanced".  The convenience
\* constructors preset the mode.
C11_ModeSelectsTemplate ==
    /\ PresetMode
    /\ (Built /\ tree.by = "render" /\ components) =>
          /\ tree.table.type = "PandasTablePlugin"
          /\ tree.table.enhanced_mode = (viewer.mode = "advanced")
    /\ (Built /\ (tree.by = "_create_table_component" \/ ~components)) =>
          /\ viewer.mode = "simple" => IsSimpleTemplate(tree.table)
          /\ viewer.mode = "advanced" =>
                IF components THEN tree.table.type = "cacao.Table"
                ELSE IsAdvancedTemplate(tree.table)

\* a page made by create_simple_table is rendered with the components
\* available
C11_Witness ==
    /\ Built /\ tree.by = "render"
    /\ components /\ madeBy = "create_simple_table"
    /\ Len(viewer.dataframe.index) > 0
    /\ tree.table.type = "PandasTablePlugin" /\ ~tree.table.enhanced_mode

(***************************************************************************)
(* Claims about the choice of reader, stated for SpecCli.                  *)
(***************************************************************************)
\* the reader the claim names for a suffix as written, "" for none
NamedReader(suffix) ==
    CASE suffix \in {".csv", ".CSV"} -> "read_csv"
      [] suffix \in {".tsv", ".TSV", ".tab"} -> "read_csv"
      [] suffix \in {".xlsx", ".XLSX", ".xls"} -> "read_excel"
      [] suffix = ".json" -> "read_json"
      [] suffix = ".parquet" -> "read_parquet"
      [] suffix \in {".pkl", ".pickle"} -> "read_pickle"
      [] OTHER -> ""

\* C12: the reader is selected from the extension alone, whatever its case:
\* .csv the delimited-text reader, .tsv/.tab the same reader with a tab
\* separator, .xlsx/.xls the workbook reader, .json, .parquet and .pkl/.pickle
\* their readers; exactly one reader is invoked for these, with the caller's
\* keyword arguments, and none for any other extension.
C12_ReaderByExtension ==
    loaded # None =>
        LET suffix == loaded.filepath.suffix
            calls == loaded.result.calls
        IN  IF NamedReader(suffix) = ""
            THEN calls = <<>>
            ELSE /\ Len(calls) = 1
                 /\ calls[1].reader = NamedReader(suffix)
                 /\ calls[1].kwargs =
                       IF suffix \in {".tsv", ".TSV", ".tab"}
                       THEN loaded.kwargs \cup {"sep"}
                       ELSE loaded.kwargs

\* files whose extension is in capitals are read by the reader of the extension
C12_Witness ==
    /\ loaded # None
    /\ loaded.filepath.suffix \in {".TSV", ".XLSX"}
    /\ loaded.filepath.content \in {"text", "workbook"}
    /\ loaded.result.exc = None
    /\ Len(loaded.result.calls) = 1

(***************************************************************************)
(* Claims about main, stated for SpecMain.                                 *)
(***************************************************************************)
Ran == cli # None

\* neither a data file nor --sample was given
NothingToShow == ~cli.args.sample /\ cli.args.data_file = None

\* the loader was called and raised
LoadFailed == cli.out.load # None /\ cli.out.load.result.exc # None

\* C13: main exits with code 1, having created neither page nor window, when
\* neither a data file nor the sample flag is given or when loading fails; in
\* every other case it constructs the page in the requested mode and asks for
\* exactly one window.
C13_ExitOrOneWindow ==
    Ran =>
        IF NothingToShow \/ LoadFailed
        THEN /\ cli.out.exit = 1
             /\ cli.out.viewer = None
             /\ ~cli.out.app
             /\ cli.out.brews = 0
             /\ cli.out.window = None
        ELSE /\ cli.out.viewer # None
             /\ cli.out.viewer.mode = cli.args.mode
             /\ cli.out.brews = 1
             /\ cli.out.uncaught = "none" =>
                   cli.out.exit = 0 /\ cli.out.window # None

\* a file is loaded and shown in simple mode, in one window
C13_Witness ==
    /\ Ran
    /\ cli.out.load # None /\ ~LoadFailed
    /\ cli.args.mode = "simple" /\ cli.out.viewer.mode = "simple"
    /\ cli.out.brews = 1 /\ cli.out.window # None

\* main loaded a file of a supported format that its reader can parse
ReadableSupported ==
    /\ Ran /\ cli.out.load # None
    /\ NamedReader(cli.args.data_file.suffix) # ""
    /\ cli.args.data_file.content = Reads(NamedReader(cli.args.data_file.suffix))

\* C14: for every supported extension the options main forwards are taken by
\* the selected reader and do not conflict: the encoding goes only to readers
\* that take it, and the tab-separated variant does not get both the loader's
\* separator and the delimiter; so a readable file of a supported format is
\* loaded and shown, and main does not exit with code 1 on it.
C14_ForwardedOptionsFit ==
    ReadableSupported =>
        LET call == cli.out.load.result.calls[1]
        IN  /\ call.kwargs \subseteq Accepts(call.reader)
            /\ ~({"sep", "delimiter"} \subseteq call.kwargs)
            /\ ~LoadFailed
            /\ cli.out.viewer # None
            /\ cli.out.uncaught = "none" => cli.out.exit = 0

=============================================================================
